---- MODULE Spec2Model ----
(***************************************************************************)
(* Model of moonraker/components/tasks.py: the Tasks component (task       *)
(* creation, start, device-event handlers, readers) and the PrinterTask    *)
(* value object.  Handlers run on one asyncio loop, so each handler is one *)
(* atomic action, except _start_task, which is split at its await.         *)
(*                                                                         *)
(* Python values: str -> TLA+ string, int -> integer, list -> sequence,    *)
(* dict -> function over its keys, None -> the string "None".  File names  *)
(* are sequences of one-character strings so that basename/splitext can be *)
(* computed.                                                               *)
(***************************************************************************)
EXTENDS Integers, Sequences, FiniteSets, Bags, TLC

VARIABLES
    tasks,        \* tasks_ns["tasks"]: task_id -> stored dict
    nextid,       \* tasks_ns["nextid"]: <<n>>, or <<>> while the key is absent
    current,      \* self.current
    print_stats,  \* self.print_stats (a dict: empty, or with key "state")
    gcdb,         \* the gcode_metadata namespace: filename -> metadata
    pending,      \* start_print calls awaiting the gateway's answer (a bag)
    clock,        \* time.time()
    ret,          \* the handler that ran last and its outcome
    allocated     \* history: the task ids successful creates returned, in order

vars == <<tasks, nextid, current, print_stats, gcdb, pending, clock, ret, allocated>>

None == "None"

\* ---------------------------------------------------------------- bounds
MaxTasks == 2
MaxPending == 1

\* ---------------------------------------------------------------- inputs
\* gcode repository: "d/a.g" exists, "x.g" does not.
FileA == <<"d", "/", "a", ".", "g">>
FileMissing == <<"x", ".", "g">>
GcodeFiles == {FileA}
RequestFiles == GcodeFiles \cup {FileMissing}
MetaValues == {"m1"}
JobIds == {"j1"}
\* web_request.get_int("id", None): <<>> for no id, <<n>> for the int n
StartIds == {<<>>} \cup {<<n>> : n \in 0..MaxTasks}
\* print_stats.state values Klipper reports
DeviceStates == {"standby", "printing", "paused", "complete", "error"}
NoStateField == "no_state_field"

\* ------------------------------------------------------- pure functions
EmptyDict == [k \in {} |-> None]

\* dict.get(key) with the default None
Get(d, k) == IF k \in DOMAIN d THEN d[k] ELSE None

DigitChar == <<"0", "1", "2", "3", "4", "5", "6", "7", "8", "9">>

RECURSIVE Decimal(_)
\* str(n) for n >= 0
Decimal(n) == IF n < 10 THEN DigitChar[n + 1]
              ELSE Decimal(n \div 10) \o DigitChar[(n % 10) + 1]

RECURSIVE NumDigits(_)
NumDigits(n) == IF n < 10 THEN 1 ELSE 1 + NumDigits(n \div 10)

RECURSIVE Zeros(_)
Zeros(k) == IF k <= 0 THEN "" ELSE "0" \o Zeros(k - 1)

\* f"{taskid:06}": at least 6 characters, padded with zeros on the left
Fmt06(n) == Zeros(6 - NumDigits(n)) \o Decimal(n)

RECURSIVE RFind(_, _, _)
\* p.rfind(c) over p[1..i], 0 when absent
RFind(p, c, i) == IF i = 0 THEN 0
                  ELSE IF p[i] = c THEN i ELSE RFind(p, c, i - 1)

\* os.path.basename(p)
Basename(p) == SubSeq(p, RFind(p, "/", Len(p)) + 1, Len(p))

\* os.path.splitext(p)[0]
SplitextRoot(p) ==
    LET sepIndex == RFind(p, "/", Len(p))
        dotIndex == RFind(p, ".", Len(p))
    IN  IF dotIndex > sepIndex
           /\ \E i \in (sepIndex + 1)..(dotIndex - 1) : p[i] /= "."
        THEN SubSeq(p, 1, dotIndex - 1)
        ELSE p

\* self.gcdb.get(filename)
GcdbGet(db, filename) == IF filename \in DOMAIN db THEN db[filename] ELSE None

\* PrinterTask.__init__ with created_time always time.time(), and
\* update_from_ps not copying it back from data
PrinterTask_created_now(data, now) ==
    [task_id |-> Get(data, "task_id"),
     created_time |-> now,
     filename |-> Get(data, "filename"),
     name |-> Get(data, "name"),
     metadata |-> Get(data, "metadata"),
     status |-> Get(data, "status"),
     last_job_id |-> None,
     jobs |-> <<>>]

\* PrinterTask.__init__(data): the six fields are read from data, then
\* update_from_ps copies the keys that are attributes so far, and only then
\* last_job_id and jobs are set, so neither is ever taken from data.
PrinterTask(data, now) ==
    LET first == [task_id |-> Get(data, "task_id"),
                  \* data.get("created_time") or time.time()
                  created_time |-> IF "created_time" \notin DOMAIN data
                                   THEN now
                                   ELSE IF data.created_time = 0 THEN now
                                        ELSE data.created_time,
                  filename |-> Get(data, "filename"),
                  name |-> Get(data, "name"),
                  metadata |-> Get(data, "metadata"),
                  status |-> Get(data, "status")]
        updated == [k \in DOMAIN first |->
                        IF k \in DOMAIN data THEN data[k] ELSE first[k]]
    IN  [task_id |-> updated.task_id,
         created_time |-> updated.created_time,
         filename |-> updated.filename,
         name |-> updated.name,
         metadata |-> updated.metadata,
         status |-> updated.status,
         last_job_id |-> None,
         jobs |-> <<>>]

\* PrinterTask.to_dict(): a copy of every attribute
to_dict(task) == task

\* get_task without line 116: the metadata is the stored record's
get_task_stored_metadata(tbl, db, taskid, now) == PrinterTask(tbl[taskid], now)

\* Tasks.get_task(taskid) for a taskid stored in tbl
get_task(tbl, db, taskid, now) ==
    LET task == PrinterTask(tbl[taskid], now)
    IN  [task EXCEPT !.metadata = GcdbGet(db, task.filename)]

\* get_task returns None for a taskid (or None) that is not a key
task_is_none(tbl, taskid) == taskid \notin DOMAIN tbl

\* Tasks.save_task(task): the table with task's dict under task.task_id
save_task(tbl, task) ==
    [k \in DOMAIN tbl \cup {task.task_id} |->
        IF k = task.task_id THEN to_dict(task) ELSE tbl[k]]

\* set_task_state writing the status into every stored task
set_task_state_every_record(tbl, db, cur, status, now) ==
    [k \in DOMAIN tbl |->
        to_dict([get_task(tbl, db, k, now) EXCEPT !.status = status])]

\* Tasks.set_task_state(status) for a current task that is stored
set_task_state(tbl, db, cur, status, now) ==
    save_task(tbl, [get_task(tbl, db, cur, now) EXCEPT !.status = status])

\* tasks_ns.get("nextid", 0)
NextIdOr0 == IF nextid = <<>> THEN 0 ELSE nextid[1]

Ret(op, kind, out) == [op |-> op, kind |-> kind, out |-> out]

\* ---------------------------------------------------------------- state
Init ==
    /\ tasks = EmptyDict
    /\ nextid = <<>>
    /\ current = None
    /\ print_stats = EmptyDict
    /\ gcdb = [f \in GcodeFiles |-> None]
    /\ pending = EmptyBag
    /\ clock = 1
    /\ ret = Ret("init", "ok", None)
    /\ allocated = <<>>

\* -------------------------------------------------------------- handlers
\* _handle_create_task without line 89: the counter is never written
handle_create_task_no_increment(file) ==
    LET taskid == NextIdOr0
        task == [PrinterTask(EmptyDict, clock) EXCEPT
                    !.filename = file,
                    !.name = SplitextRoot(Basename(file)),
                    !.created_time = clock,
                    !.task_id = Fmt06(taskid),
                    !.status = "created"]
    IN  IF file \notin GcodeFiles
        THEN /\ ret' = Ret("create", "error", "File does not exist")
             /\ UNCHANGED <<tasks, nextid, current, print_stats, gcdb,
                            pending, clock, allocated>>
        ELSE /\ Len(allocated) < MaxTasks
             /\ tasks' = save_task(tasks, task)
             /\ clock' = clock + 1
             /\ ret' = Ret("create", "task", to_dict(task))
             /\ allocated' = Append(allocated, task.task_id)
             /\ UNCHANGED <<nextid, current, print_stats, gcdb, pending>>

\* _handle_create_task writing the counter before the file check
handle_create_task_counts_failures(file) ==
    LET taskid == NextIdOr0
        task == [PrinterTask(EmptyDict, clock) EXCEPT
                    !.filename = file,
                    !.name = SplitextRoot(Basename(file)),
                    !.created_time = clock,
                    !.task_id = Fmt06(taskid),
                    !.status = "created"]
    IN  /\ taskid < MaxTasks
        /\ nextid' = <<taskid + 1>>
        /\ IF file \notin GcodeFiles
           THEN /\ ret' = Ret("create", "error", "File does not exist")
                /\ UNCHANGED <<tasks, current, print_stats, gcdb,
                               pending, clock, allocated>>
           ELSE /\ tasks' = save_task(tasks, task)
                /\ clock' = clock + 1
                /\ ret' = Ret("create", "task", to_dict(task))
                /\ allocated' = Append(allocated, task.task_id)
                /\ UNCHANGED <<current, print_stats, gcdb, pending>>

\* _handle_create_task without line 86: the status is left as loaded
handle_create_task_no_status(file) ==
    LET taskid == NextIdOr0
        now == clock
        task == [PrinterTask(EmptyDict, now) EXCEPT
                    !.filename = file,
                    !.name = SplitextRoot(Basename(file)),
                    !.created_time = now,
                    !.task_id = Fmt06(taskid)]
    IN  IF file \notin GcodeFiles
        THEN /\ ret' = Ret("create", "error", "File does not exist")
             /\ UNCHANGED <<tasks, nextid, current, print_stats, gcdb,
                            pending, clock, allocated>>
        ELSE /\ taskid < MaxTasks
             /\ tasks' = save_task(tasks, task)
             /\ nextid' = <<taskid + 1>>
             /\ clock' = clock + 1
             /\ ret' = Ret("create", "task", to_dict(task))
             /\ allocated' = Append(allocated, task.task_id)
             /\ UNCHANGED <<current, print_stats, gcdb, pending>>

\* Tasks._handle_create_task
handle_create_task(file) ==
    LET taskid == NextIdOr0
        now == clock
        task == [PrinterTask(EmptyDict, now) EXCEPT
                    !.filename = file,
                    !.name = SplitextRoot(Basename(file)),
                    !.created_time = now,
                    !.task_id = Fmt06(taskid),
                    !.status = "created"]
    IN  IF file \notin GcodeFiles
        THEN /\ ret' = Ret("create", "error", "File does not exist")
             /\ UNCHANGED <<tasks, nextid, current, print_stats, gcdb,
                            pending, clock, allocated>>
        ELSE /\ taskid < MaxTasks
             /\ tasks' = save_task(tasks, task)
             /\ nextid' = <<taskid + 1>>
             /\ clock' = clock + 1
             /\ ret' = Ret("create", "task", to_dict(task))
             /\ allocated' = Append(allocated, task.task_id)
             /\ UNCHANGED <<current, print_stats, gcdb, pending>>

\* _start_task with line 105 moved before the await of line 104
start_task_sets_current_first(id) ==
    IF id = <<>>
    THEN /\ ret' = Ret("start", "error", "No task specified")
         /\ UNCHANGED <<tasks, nextid, current, print_stats, gcdb, pending,
                        clock, allocated>>
    ELSE LET taskid == Fmt06(id[1])
         IN  IF task_is_none(tasks, taskid)
             THEN /\ ret' = Ret("start", "error", "Task does not exist")
                  /\ UNCHANGED <<tasks, nextid, current, print_stats, gcdb,
                                 pending, clock, allocated>>
             ELSE /\ BagCardinality(pending) < MaxPending
                  /\ pending' = pending (+) SetToBag({
                        [taskid |-> taskid,
                         filename |-> get_task(tasks, gcdb, taskid, clock).filename]})
                  /\ current' = taskid
                  /\ ret' = Ret("start", "await", None)
                  /\ UNCHANGED <<tasks, nextid, print_stats, gcdb,
                                 clock, allocated>>

\* Tasks._start_task up to its await: the id checks, then the start_print call
start_task(id) ==
    IF id = <<>>
    THEN /\ ret' = Ret("start", "error", "No task specified")
         /\ UNCHANGED <<tasks, nextid, current, print_stats, gcdb, pending,
                        clock, allocated>>
    ELSE LET taskid == Fmt06(id[1])
         IN  IF task_is_none(tasks, taskid)
             THEN /\ ret' = Ret("start", "error", "Task does not exist")
                  /\ UNCHANGED <<tasks, nextid, current, print_stats, gcdb,
                                 pending, clock, allocated>>
             ELSE /\ BagCardinality(pending) < MaxPending
                  /\ pending' = pending (+) SetToBag({
                        [taskid |-> taskid,
                         filename |-> get_task(tasks, gcdb, taskid, clock).filename]})
                  /\ ret' = Ret("start", "await", None)
                  /\ UNCHANGED <<tasks, nextid, current, print_stats, gcdb,
                                 clock, allocated>>

\* Tasks._start_task after its await, the gateway having accepted start_print
start_task_accepted(call) ==
    /\ BagIn(call, pending)
    /\ pending' = pending (-) SetToBag({call})
    /\ current' = call.taskid
    /\ ret' = Ret("start_accepted", "ok", None)
    /\ UNCHANGED <<tasks, nextid, print_stats, gcdb, clock, allocated>>

\* Tasks._start_task after its await, start_print having raised
start_task_rejected(call) ==
    /\ BagIn(call, pending)
    /\ pending' = pending (-) SetToBag({call})
    /\ ret' = Ret("start_rejected", "raised", "ServerError")
    /\ UNCHANGED <<tasks, nextid, current, print_stats, gcdb, clock, allocated>>

\* what Tasks._handle_tasks_list returns: every stored dict with its metadata
\* key set from the provider (a set: the order of the list is the dict's)
tasks_list_result ==
    {[tasks[k] EXCEPT !.metadata = GcdbGet(gcdb, tasks[k].filename)] :
        k \in DOMAIN tasks}

\* Tasks._handle_tasks_list
handle_tasks_list ==
    /\ ret' = Ret("list", "list", tasks_list_result)
    /\ UNCHANGED <<tasks, nextid, current, print_stats, gcdb, pending, clock, allocated>>

\* Tasks._handle_current_task returns None
current_task_is_none == current = None \/ task_is_none(tasks, current)

\* what Tasks._handle_current_task returns when it is not None
current_task_result == to_dict(get_task(tasks, gcdb, current, clock))

\* Tasks._handle_current_task
handle_current_task ==
    /\ ret' = IF current_task_is_none
              THEN Ret("current", "none", None)
              ELSE Ret("current", "task", current_task_result)
    /\ UNCHANGED <<tasks, nextid, current, print_stats, gcdb, pending, clock, allocated>>

\* finish_task without line 131: the current pointer is kept
finish_task_keeps_current(status) ==
    /\ tasks' = set_task_state(tasks, gcdb, current, status, clock)
    /\ UNCHANGED current

\* Tasks.finish_task(status) for a current task that is stored
finish_task(status) ==
    /\ tasks' = set_task_state(tasks, gcdb, current, status, clock)
    /\ current' = None

\* Tasks._init_ready.  outcome: "error" (subscribe_objects raised), "empty"
\* (the result has no print_stats), or the state in the result's print_stats.
\* After the except branch `result` is unbound, so line 140 raises.
init_ready(outcome) ==
    /\ IF outcome = "error"
       THEN /\ ret' = Ret("ready", "raised", "UnboundLocalError")
            /\ UNCHANGED print_stats
       ELSE /\ print_stats' = IF outcome = "empty" THEN EmptyDict
                              ELSE [state |-> outcome]
            /\ ret' = Ret("ready", "ok", None)
    /\ UNCHANGED <<tasks, nextid, current, gcdb, pending, clock, allocated>>

\* Tasks._status_update.  new_state: the state in data["print_stats"], or
\* NoStateField.  same_object: whether new_state and the snapshot's state are
\* one str object, which `is not` tests; two equal strings may or may not be.
status_update(new_state, same_object) ==
    /\ same_object =>
          /\ new_state /= NoStateField
          /\ "state" \in DOMAIN print_stats
          /\ print_stats["state"] = new_state
    /\ UNCHANGED <<nextid, print_stats, gcdb, pending, clock, allocated>>
    /\ IF new_state = NoStateField
       THEN /\ ret' = Ret("status", "ok", new_state)
            /\ UNCHANGED <<tasks, current>>
       ELSE IF "state" \notin DOMAIN print_stats
       THEN /\ ret' = Ret("status", "KeyError", new_state)
            /\ UNCHANGED <<tasks, current>>
       ELSE IF same_object
       THEN /\ ret' = Ret("status", "ok", new_state)
            /\ UNCHANGED <<tasks, current>>
       ELSE IF current = None
       THEN /\ ret' = Ret("status", "ok", new_state)
            /\ UNCHANGED <<tasks, current>>
       ELSE IF task_is_none(tasks, current)
               /\ new_state \in {"printing", "complete", "standby", "error"}
       THEN /\ ret' = Ret("status", "AttributeError", new_state)
            /\ UNCHANGED <<tasks, current>>
       ELSE /\ ret' = Ret("status", "ok", new_state)
            /\ IF new_state = "printing"
               THEN /\ tasks' = set_task_state(tasks, gcdb, current, "printing", clock)
                    /\ UNCHANGED current
               ELSE IF new_state = "complete" THEN finish_task("completed")
               ELSE IF new_state = "standby" THEN finish_task("cancelled")
               ELSE IF new_state = "error" THEN finish_task("error")
               ELSE UNCHANGED <<tasks, current>>

\* Tasks._handle_shutdown
handle_shutdown ==
    /\ IF task_is_none(tasks, current)
       THEN /\ ret' = Ret("shutdown", "raised", "AttributeError")
            /\ UNCHANGED <<tasks, current>>
       ELSE /\ finish_task("klippy_shutdown")
            /\ ret' = Ret("shutdown", "ok", None)
    /\ UNCHANGED <<nextid, print_stats, gcdb, pending, clock, allocated>>

\* Tasks._handle_disconnect
handle_disconnect ==
    /\ IF task_is_none(tasks, current)
       THEN /\ ret' = Ret("disconnect", "raised", "AttributeError")
            /\ UNCHANGED <<tasks, current>>
       ELSE /\ finish_task("klippy_disconnect")
            /\ ret' = Ret("disconnect", "ok", None)
    /\ UNCHANGED <<nextid, print_stats, gcdb, pending, clock, allocated>>

\* Tasks._handle_history
handle_history(action, job_id) ==
    /\ IF action = "added" /\ current /= None /\ current /= ""
       THEN IF task_is_none(tasks, current)
            THEN /\ ret' = Ret("history", "raised", "AttributeError")
                 /\ UNCHANGED tasks
            ELSE /\ tasks' = save_task(tasks,
                        [get_task(tasks, gcdb, current, clock) EXCEPT
                            !.last_job_id = job_id,
                            !.jobs = Append(@, job_id)])
                 /\ ret' = Ret("history", "ok", None)
       ELSE /\ ret' = Ret("history", "ok", None)
            /\ UNCHANGED tasks
    /\ UNCHANGED <<nextid, current, print_stats, gcdb, pending, clock, allocated>>

\* The metadata provider sets (or, with None, drops) its entry for a file
gcdb_update(file, meta) ==
    /\ gcdb[file] /= meta
    /\ gcdb' = [gcdb EXCEPT ![file] = meta]
    /\ UNCHANGED <<tasks, nextid, current, print_stats, pending, clock, ret, allocated>>

Next ==
    \/ \E file \in RequestFiles : handle_create_task(file)
    \/ \E id \in StartIds : start_task(id)
    \/ \E call \in BagToSet(pending) : start_task_accepted(call)
    \/ \E call \in BagToSet(pending) : start_task_rejected(call)
    \/ handle_tasks_list
    \/ handle_current_task
    \/ \E outcome \in {"error", "empty"} \cup DeviceStates : init_ready(outcome)
    \/ \E new_state \in DeviceStates \cup {NoStateField}, same_object \in BOOLEAN :
          status_update(new_state, same_object)
    \/ handle_shutdown
    \/ handle_disconnect
    \/ \E action \in {"added", "finished"}, job_id \in JobIds :
          handle_history(action, job_id)

\* The handlers, the metadata provider holding no entry
Spec == Init /\ [][Next]_vars

NextMeta ==
    \/ Next
    \/ \E file \in GcodeFiles, meta \in MetaValues \cup {None} :
          gcdb_update(file, meta)

\* The handlers, the metadata provider changing its entries meanwhile
SpecMeta == Init /\ [][NextMeta]_vars
\* ================================================================ claims
\* n < 10^6 written with exactly six decimal digits
ZeroPadded6(n) ==
    DigitChar[((n \div 100000) % 10) + 1] \o DigitChar[((n \div 10000) % 10) + 1]
    \o DigitChar[((n \div 1000) % 10) + 1] \o DigitChar[((n \div 100) % 10) + 1]
    \o DigitChar[((n \div 10) % 10) + 1] \o DigitChar[(n % 10) + 1]

\* C1: after N successful creates, however interleaved with failed creates,
\* starts and device events, the stored task ids are exactly 0..N-1 as
\* zero-padded 6-digit strings, and the i-th successful create returned the
\* id i-1: increasing, none shared, none skipped, none reused.
C1_TaskIdAllocation ==
    /\ DOMAIN tasks = {ZeroPadded6(i) : i \in 0..(Len(allocated) - 1)}
    /\ \A i \in 1..Len(allocated) : allocated[i] = ZeroPadded6(i - 1)
    /\ \A k \in DOMAIN tasks : tasks[k].task_id = k

C1_Witness ==
    /\ Len(allocated) = MaxTasks
    /\ ret.op = "create" /\ ret.kind = "error"
    /\ current /= None
    /\ \E k \in DOMAIN tasks : tasks[k].status \notin {"created", "printing"}

\* C2: a create for a file that is not in the gcode repository returns the
\* error result, stores no record and leaves the next-id counter as it was,
\* and the next successful create returns the id that was next: the number of
\* successful creates so far.
C2_CreateMissingFile ==
    [][/\ \A file \in RequestFiles \ GcodeFiles :
             (ret'.op = "create" /\ handle_create_task(file)) =>
                /\ ret'.kind = "error" /\ ret'.out = "File does not exist"
                /\ tasks' = tasks
                /\ nextid' = nextid
       /\ \A file \in GcodeFiles :
             (ret'.op = "create" /\ handle_create_task(file)) =>
                /\ ret'.kind = "task"
                /\ ret'.out.task_id = ZeroPadded6(Len(allocated))]_vars

C2_Witness ==
    /\ ret.op = "create" /\ ret.kind = "error"
    /\ Len(allocated) = 1
    /\ DOMAIN tasks = {ZeroPadded6(0)}
    /\ nextid = <<1>>

\* C3: with a task current (created, then started), a status event reporting
\* printing, the status event before it having reported another state, makes
\* get_current_task return that task with status printing.
C3_PrintingEvent ==
    [][(/\ current /= None
        /\ ret.op = "status" /\ ret.out \in DeviceStates \ {"printing"}
        /\ ret'.op = "status"
        /\ \E same_object \in BOOLEAN : status_update("printing", same_object))
       => /\ current' = current
          /\ ~current_task_is_none'
          /\ current_task_result'.status = "printing"]_vars

\* C4: with a task current whose status is printing, a status event reporting
\* complete leaves no task current and list_tasks holds that task with status
\* completed.
C4_CompleteEvent ==
    [][(/\ current /= None
        /\ ret'.op = "status"
        /\ ~task_is_none(tasks, current)
        /\ tasks[current].status = "printing"
        /\ \E same_object \in BOOLEAN : status_update("complete", same_object))
       => /\ current' = None
          /\ \E d \in tasks_list_result' :
                d.task_id = current /\ d.status = "completed"]_vars

\* C5: with a task current, a disconnect event stores status
\* klippy_disconnect for it, a shutdown event klippy_shutdown, and both clear
\* the current pointer, whatever the snapshot and the task's status were.
C5_DisconnectShutdown ==
    [][/\ (current /= None /\ ret'.op = "disconnect" /\ handle_disconnect)
          => /\ current' = None
             /\ tasks'[current].status = "klippy_disconnect"
       /\ (current /= None /\ ret'.op = "shutdown" /\ handle_shutdown)
          => /\ current' = None
             /\ tasks'[current].status = "klippy_shutdown"]_vars

C5_Witness ==
    /\ ret.op = "disconnect" /\ ret.kind = "ok"
    /\ current = None
    /\ "state" \in DOMAIN print_stats /\ print_stats["state"] = "printing"
    /\ \E k \in DOMAIN tasks : tasks[k].status = "klippy_disconnect"
    /\ \E k \in DOMAIN tasks : tasks[k].status = "klippy_shutdown"

\* C6: a status event whose state is the state of the status event handled
\* just before it changes no stored task record and not the current pointer
\* (stated for a snapshot holding another state, where the two str objects
\* compared are never one object).
C6_DuplicateStatus ==
    [][(/\ ret.op = "status" /\ ret.out \in DeviceStates
        /\ ret'.op = "status"
        /\ "state" \in DOMAIN print_stats /\ print_stats["state"] /= ret.out
        /\ status_update(ret.out, FALSE))
       => UNCHANGED <<tasks, current>>]_vars

\* C7: each job-recorded event with action added, handled while a task is
\* current, appends its job id to that task's stored jobs and makes it the
\* last_job_id, and a status event that leaves the task current keeps both,
\* so that k such events leave exactly their k ids, in arrival order.
C7_JobsAccumulate ==
    [][/\ \A job_id \in JobIds :
             (current /= None /\ ret'.op = "history"
              /\ handle_history("added", job_id))
             => /\ tasks'[current].jobs = Append(tasks[current].jobs, job_id)
                /\ tasks'[current].last_job_id = job_id
       /\ (/\ current /= None /\ current' = current
           /\ ret'.op = "status"
           /\ \E new_state \in DeviceStates, same_object \in BOOLEAN :
                 status_update(new_state, same_object))
          => /\ tasks'[current].jobs = tasks[current].jobs
             /\ tasks'[current].last_job_id = tasks[current].last_job_id]_vars

\* C8: a start that fails changes nothing: with no id or an id that names no
\* stored task it returns the error without calling the gateway, and when the
\* gateway rejects start_print the current pointer and every stored record
\* stay as they were; nor does start change them while it awaits the gateway.
C8_FailedStart ==
    [][/\ \A id \in StartIds :
             (ret'.op = "start" /\ start_task(id)) =>
                /\ UNCHANGED <<tasks, current>>
                /\ (id = <<>> \/ task_is_none(tasks, Fmt06(id[1])))
                   => /\ ret'.kind = "error"
                      /\ pending' = pending
       /\ \A call \in BagToSet(pending) :
             (ret'.op = "start_rejected" /\ start_task_rejected(call))
             => UNCHANGED <<tasks, current>>]_vars

C8_Witness ==
    /\ ret.op = "start_rejected"
    /\ current /= None
    /\ tasks[current].status = "printing"

\* C9: no record of the persisted task table carries metadata.
C9_MetadataNotStored ==
    \A k \in DOMAIN tasks : tasks[k].metadata = None

\* C10: list_tasks and get_current_task return every task with the metadata
\* the provider holds for the task's filename when they are called (None when
\* it holds none), whatever metadata the stored record carries.
C10_MetadataJoined ==
    [][/\ (ret'.op = "list" /\ handle_tasks_list)
          => /\ ret'.kind = "list"
             /\ \A k \in DOMAIN tasks :
                   \E d \in ret'.out :
                      /\ d.task_id = k
                      /\ d.metadata = GcdbGet(gcdb, tasks[k].filename)
       /\ (ret'.op = "current" /\ handle_current_task /\ current /= None)
          => /\ ret'.kind = "task"
             /\ ret'.out.task_id = current
             /\ ret'.out.metadata = GcdbGet(gcdb, tasks[current].filename)]_vars

C10_Witness ==
    /\ ret.op = "current" /\ ret.kind = "task"
    /\ current /= None
    /\ ret.out.task_id = current
    /\ tasks[current].metadata /= GcdbGet(gcdb, tasks[current].filename)
    /\ ret.out.metadata = GcdbGet(gcdb, tasks[current].filename)
    /\ ret.out.metadata /= None

TerminalStatuses ==
    {"completed", "cancelled", "error", "klippy_shutdown", "klippy_disconnect"}

\* C11: once a start has made a task current, the current pointer leaves that
\* task only by being cleared, in a step that stores a terminal status for
\* the task; it never moves from one task straight to another.
C11_FinishedOncePerActivation ==
    [][(current /= None /\ current' /= current)
       => /\ current' = None
          /\ current \in DOMAIN tasks'
          /\ tasks'[current].status \in TerminalStatuses]_vars

\* C12: a task id in the persisted table stays in it, and the record's
\* task_id, filename, name and created_time never change, whichever handler
\* runs.
C12_RecordsPermanent ==
    [][\A k \in DOMAIN tasks :
          /\ k \in DOMAIN tasks'
          /\ tasks'[k].task_id = tasks[k].task_id
          /\ tasks'[k].filename = tasks[k].filename
          /\ tasks'[k].name = tasks[k].name
          /\ tasks'[k].created_time = tasks[k].created_time]_vars

C12_Witness ==
    /\ Cardinality(DOMAIN tasks) = MaxTasks
    /\ clock > 2
    /\ \E k \in DOMAIN tasks :
          /\ tasks[k].created_time = 1
          /\ tasks[k].status \in TerminalStatuses
    /\ \E k \in DOMAIN tasks :
          /\ tasks[k].created_time = 2
          /\ tasks[k].jobs /= <<>>

DeviceEventOps == {"status", "disconnect", "shutdown", "history"}

\* C13: a status, disconnect, shutdown or job-recorded event changes the
\* status, jobs and last_job_id of no stored task but the current one, and a
\* status or job-recorded event handled with no task current changes no
\* stored record.
C13_EventsTouchOnlyCurrent ==
    [][(ret'.op \in DeviceEventOps)
       => /\ \A k \in DOMAIN tasks :
                k /= current
                => /\ k \in DOMAIN tasks'
                   /\ tasks'[k].status = tasks[k].status
                   /\ tasks'[k].jobs = tasks[k].jobs
                   /\ tasks'[k].last_job_id = tasks[k].last_job_id
          /\ (current = None /\ ret'.op \in {"status", "history"})
             => tasks' = tasks]_vars

C13_Witness ==
    /\ ret.op = "history" /\ ret.kind = "ok"
    /\ current /= None
    /\ tasks[current].jobs /= <<>>
    /\ \E k \in DOMAIN tasks :
          /\ k /= current
          /\ tasks[k].status = "completed"

\* C14: a disconnect or shutdown event handled with no task current returns
\* without raising and leaves the current pointer and every stored record as
\* they were.
C14_DisconnectWithoutCurrent ==
    [][/\ (current = None /\ ret'.op = "disconnect" /\ handle_disconnect)
          => (ret'.kind = "ok" /\ UNCHANGED <<tasks, current>>)
       /\ (current = None /\ ret'.op = "shutdown" /\ handle_shutdown)
          => (ret'.kind = "ok" /\ UNCHANGED <<tasks, current>>)]_vars

\* C15: with a task current, a status event reporting standby, the status
\* event before it having reported another state, finishes the task with
\* status cancelled and clears the current pointer; one reporting error
\* finishes it with status error.
C15_CancelledAndError ==
    [][/\ (/\ current /= None
           /\ ret.op = "status" /\ ret.out \in DeviceStates \ {"standby"}
           /\ ret'.op = "status"
           /\ \E same_object \in BOOLEAN : status_update("standby", same_object))
          => /\ current' = None
             /\ tasks'[current].status = "cancelled"
       /\ (/\ current /= None
           /\ ret.op = "status" /\ ret.out \in DeviceStates \ {"error"}
           /\ ret'.op = "status"
           /\ \E same_object \in BOOLEAN : status_update("error", same_object))
          => /\ current' = None
             /\ tasks'[current].status = "error"]_vars

\* C16: after a status event that reports a state has been handled, the
\* state in the snapshot, which the next status event is compared with, is
\* the state that event reported.
C16_SnapshotTracksDevice ==
    (ret.op = "status" /\ ret.kind = "ok" /\ ret.out \in DeviceStates)
    => /\ "state" \in DOMAIN print_stats
       /\ print_stats["state"] = ret.out

\* C17: the current pointer is set to a task id only in the step in which
\* the gateway accepts a start of that id which was awaiting it, never in the
\* step that begins the start; and a status event handled while a start is
\* awaiting the gateway and no task is current changes neither the current
\* pointer nor any stored record.
C17_StartSuspension ==
    [][/\ (current' /= current /\ current' /= None)
          => /\ ret'.op = "start_accepted"
             /\ \E call \in BagToSet(pending) :
                   /\ call.taskid = current'
                   /\ start_task_accepted(call)
       /\ (/\ current = None
           /\ pending /= EmptyBag
           /\ ret'.op = "status")
          => UNCHANGED <<tasks, current, pending>>]_vars

C17_Witness ==
    /\ pending /= EmptyBag
    /\ current = None
    /\ "state" \in DOMAIN print_stats
    /\ ret.op = "status" /\ ret.kind = "ok"
    /\ ret.out \in DeviceStates
    /\ ret.out /= print_stats["state"]

\* C18: after a subscription that failed at ready time, with no snapshot
\* state stored, a status event reporting printing is handled without an
\* error and, a task being current, stores status printing for it.
C18_FailedSubscription ==
    [][(/\ ret.op = "ready" /\ ret.kind = "raised"
        /\ current /= None
        /\ "state" \notin DOMAIN print_stats
        /\ ret'.op = "status"
        /\ status_update("printing", FALSE))
       => /\ ret'.kind = "ok"
          /\ tasks'[current].status = "printing"]_vars

\* C19: at most one stored task has status printing, and a stored task with
\* status printing is the current task.
C19_OnePrintingTask ==
    /\ Cardinality({k \in DOMAIN tasks : tasks[k].status = "printing"}) <= 1
    /\ \A k \in DOMAIN tasks : tasks[k].status = "printing" => k = current

TaskStatuses == {"created", "printing"} \cup TerminalStatuses

\* C20: the current pointer is None or the id of a stored task, every stored
\* status is one of the seven task statuses, and the task a create has just
\* returned is stored with status created, no jobs and no last job id.
C20_WellFormedState ==
    /\ current \in {None} \cup DOMAIN tasks
    /\ \A k \in DOMAIN tasks : tasks[k].status \in TaskStatuses
    /\ (ret.op = "create" /\ ret.kind = "task")
       => /\ ret.out.task_id \in DOMAIN tasks
          /\ tasks[ret.out.task_id] = ret.out
          /\ ret.out.status = "created"
          /\ ret.out.jobs = <<>>
          /\ ret.out.last_job_id = None

C20_Witness ==
    /\ ret.op = "create" /\ ret.kind = "task"
    /\ current /= None
    /\ current /= ret.out.task_id
    /\ tasks[current].status = "printing"
====
